---- MODULE Spec2Model ----
(***************************************************************************)
(* Stream recorder controller: the ps-based web server with the cron       *)
(* scheduler (src/unnamed/part_002), its predecessor with orphan cleanup   *)
(* (src/unnamed/part_003) and the in-memory variant (src/server.js).       *)
(*                                                                         *)
(* The controller is a single Node.js event loop.  A handler runs without  *)
(* interruption between two awaits; the only await that yields to other    *)
(* handlers is the `ps` child process of getRunningFfmpegProcesses, whose  *)
(* output is a snapshot of the process table taken some time before the    *)
(* handler continues.  Every handler is therefore split at that snapshot.  *)
(***************************************************************************)
EXTENDS Integers, Sequences, FiniteSets, TLC

VARIABLES procs, stateFile, links, now, inflight, timers, last, nextGen,
          cronFile, activeCronJobs, variant, nreq, activeRecordings

vars == <<procs, stateFile, links, now, inflight, timers, last, nextGen,
          cronFile, activeCronJobs, variant, nreq, activeRecordings>>

(* ------------------------------ bounds -------------------------------- *)
MaxPid == 2
MaxTime == 1
MaxGen == 3
MaxInflight == 2
MaxReq == 2

Pids == 1..MaxPid
Slots == 1..MaxInflight
NoPid == 0

(* ------------------------------ names --------------------------------- *)
\* A name is a sequence of characters.
AlnumChars == {"a", "b", "1"}
SepChars == {"_", " "}
DigitChars == {"0", "1", "2", "3", "4", "5", "6", "7", "8", "9"}
ValidNames == {<<"a">>, <<"b">>}
BadNames == {<<>>, <<"a", "_">>}
Names == ValidNames \cup BadNames
NoName == <<>>

\* validateName as if the pattern admitted the underscore.
validateNameLoose(name) ==
    \A i \in 1..Len(name) : name[i] \in AlnumChars \cup {"_"}

validateName(name) ==
    /\ Len(name) > 0
    /\ \A i \in 1..Len(name) : name[i] \in AlnumChars

Stamp(t) ==
    CASE t = 0 -> "0" [] t = 1 -> "1" [] t = 2 -> "2" [] t = 3 -> "3"
      [] OTHER -> "4"

\* streamrecording_<name>_<timestamp>.mp3, one token per character except
\* the fixed prefix and extension.
generateFilename(name, t) ==
    <<"streamrecording_">> \o name \o <<"_", Stamp(t), ".mp3">>

\* args.match(/streamrecording_([^_\s]+)_\d+\.mp3/): the capture is the run
\* of characters after the prefix up to the first underscore (it can hold
\* neither an underscore nor white space and must be followed by one), and
\* after that underscore come one or more digits and ".mp3".
FirstSep(s) ==
    IF \E i \in 1..Len(s) : s[i] \in SepChars
    THEN CHOOSE i \in 1..Len(s) :
            /\ s[i] \in SepChars
            /\ \A j \in 1..(i - 1) : s[j] \notin SepChars
    ELSE 0

DigitsThenExt(s) ==
    \E m \in 1..Len(s) :
        /\ \A j \in 1..m : s[j] \in DigitChars
        /\ m + 1 <= Len(s)
        /\ s[m + 1] = ".mp3"

ExtractName(args) ==
    IF Len(args) = 0 \/ args[1] # "streamrecording_" THEN NoName
    ELSE LET s == Tail(args)
             k == FirstSep(s)
         IN IF /\ k > 1
               /\ s[k] = "_"
               /\ DigitsThenExt(SubSeq(s, k + 1, Len(s)))
            THEN SubSeq(s, 1, k - 1)
            ELSE NoName

(* --------------------------- process table ---------------------------- *)
\* gen numbers the incarnations of processes; it is not visible to the
\* controller.  term: SIGTERM was delivered.  watched: the controller that
\* spawned it still holds its exit/error listeners.  managed: spawned by
\* the controller (not planted from outside).
NoProc == [args |-> <<>>, gen |-> 0, term |-> FALSE, watched |-> FALSE,
           managed |-> FALSE]

Live(p) == p \in Pids /\ procs[p].gen # 0

\* getRunningFfmpegProcesses: the (pid, name) pairs of the processes whose
\* arguments carry a recording file name.
getRunningFfmpegProcesses ==
    {[pid |-> p, name |-> ExtractName(procs[p].args)] :
        p \in {q \in Pids : Live(q) /\ ExtractName(procs[q].args) # NoName}}

(* ----------------------------- state file ----------------------------- *)
\* kind: "absent" no file, "json" a file JSON.parse reads, "corrupt" a
\* file it throws on, "unreadable" a file readFileSync throws on (recs is
\* then what the bytes used to say).  ro: writeFileSync and unlinkSync
\* throw (read-only or full volume).
Absent == [kind |-> "absent", recs |-> <<>>, ro |-> FALSE]

\* loadStateFile as if the catch handed back what the file used to hold.
loadStateFileRaw(f) == f.recs

\* loadStateFile: [] when the file is missing or read or parse throw.
loadStateFile(f) == IF f.kind = "json" THEN f.recs ELSE <<>>

\* saveStateFile on file f: the error of a failed write is logged only.
saveStateFile(f, recs) ==
    IF f.ro THEN f ELSE [kind |-> "json", recs |-> recs, ro |-> FALSE]

\* fs.existsSync, then fs.unlinkSync inside try/catch.
\* unlinkStateFile as if the pass wrote the empty list instead.
unlinkStateFileAsSave(f) ==
    IF f.ro THEN f ELSE [kind |-> "json", recs |-> <<>>, ro |-> FALSE]

unlinkStateFile(f) == IF f.ro \/ f.kind = "absent" THEN f ELSE Absent

HasName(recs, name) == \E i \in 1..Len(recs) : recs[i].name = name

FindName(recs, name) ==
    recs[CHOOSE i \in 1..Len(recs) :
            /\ recs[i].name = name
            /\ \A j \in 1..(i - 1) : recs[j].name # name]

(* ----------------------------- reconciler ----------------------------- *)
\* CleanedRecordings without the comparison of names.
CleanedByPid(snap, f) ==
    LET Keep(r) == \E q \in snap : q.pid = r.pid
    IN SelectSeq(loadStateFile(f), Keep)

\* CleanedRecordings as if no entry survived.
CleanedRecordingsNone(snap, f) == <<>>

\* part_002: an entry survives when the snapshot holds its pid with the
\* same extracted name.
CleanedRecordings(snap, f) ==
    LET Keep(r) == \E q \in snap : q.pid = r.pid /\ q.name = r.name
    IN SelectSeq(loadStateFile(f), Keep)

\* part_003: an entry survives when the snapshot holds its pid.
CleanedRecordingsPs(snap, f) ==
    LET Keep(r) == \E q \in snap : q.pid = r.pid
    IN SelectSeq(loadStateFile(f), Keep)

Cleaned(snap, f) ==
    IF variant = "cron" THEN CleanedRecordings(snap, f)
    ELSE CleanedRecordingsPs(snap, f)

\* syncStateWithPs as if the pass left the file as it is.
syncStateWithPsNone(snap, f) == f

\* The state file after the pass: rewritten only when the length changed,
\* removed when nothing is left.
syncStateWithPs(snap, f) ==
    LET cleaned == Cleaned(snap, f)
    IN IF Len(cleaned) # Len(loadStateFile(f))
       THEN IF Len(cleaned) = 0 THEN unlinkStateFile(f)
            ELSE saveStateFile(f, cleaned)
       ELSE f

\* Orphans as if the pass of part_002 signalled them as well.
OrphansAlways(snap, f) ==
    LET recs == loadStateFile(f)
    IN {q.pid : q \in {x \in snap :
            \A i \in 1..Len(recs) : recs[i].pid # x.pid}}

\* part_003 only: the snapshot processes whose pid is in no loaded entry.
Orphans(snap, f) ==
    IF variant = "cron" THEN {}
    ELSE LET recs == loadStateFile(f)
         IN {q.pid : q \in {x \in snap :
                \A i \in 1..Len(recs) : recs[i].pid # x.pid}}

\* Signalled as if a signal to a missing pid did not throw.
SignalledAll(P, S) == S \cap Pids

\* process.kill(pid, 'SIGTERM') for every pid of S in process table P; a
\* pid that does not exist throws and schedules no timer.
Signalled(P, S) == {p \in S \cap Pids : P[p].gen # 0}

TermProcs(P, S) ==
    [p \in Pids |-> IF p \in Signalled(P, S)
                    THEN [P[p] EXCEPT !.term = TRUE]
                    ELSE P[p]]

KillTimers(P, S) == {[pid |-> p, gen |-> P[p].gen] : p \in Signalled(P, S)}

\* What one pass does to the process table and the pending timers.
SyncProcs(snap, f) == TermProcs(procs, Orphans(snap, f))

SyncTimers(snap, f) == timers \cup KillTimers(procs, Orphans(snap, f))

\* getActiveRecordings as if the file were read without the pass.
getActiveRecordingsRaw(snap, f) == loadStateFile(f)

\* getActiveRecordings returns what the file holds after the pass.
getActiveRecordings(snap, f) == loadStateFile(syncStateWithPs(snap, f))

(* ------------------------------ handlers ------------------------------ *)
\* pc: "ps" the `ps` child of the first pass has not read the table yet,
\* "cont" it has; "ps2"/"cont2" the same for the second pass of stop and
\* stop-all.  seen and dead are not program state: the incarnations that
\* were running, and those a Registry record still named although they were
\* gone, when the handler's first snapshot was taken; stop then sets dead to
\* the incarnation of the record it found when its signal finds no process.
Idle == [op |-> "idle", name |-> NoName, pc |-> "-", snap |-> {},
         seen |-> {}, dead |-> {}, out |-> <<>>, dur |-> 0]

IsIdle(h) == inflight[h].op = "idle"

\* Slots are interchangeable: a new handler takes the lowest free one.
HasFree == \E h \in Slots : IsIdle(h)

LowestIdle(I) ==
    CHOOSE h \in Slots : I[h].op = "idle" /\ \A g \in 1..(h - 1) : I[g].op # "idle"

FreeSlot == LowestIdle(inflight)

AllLiveGens == {procs[p].gen : p \in {q \in Pids : Live(q)}}

RecGens(recs) == {recs[i].gen : i \in 1..Len(recs)}

DeadGens == (RecGens(loadStateFile(stateFile)) \ AllLiveGens) \ {0}

Begin(op, name, dur) ==
    [op |-> op, name |-> name, pc |-> "cont",
     snap |-> getRunningFfmpegProcesses, seen |-> AllLiveGens,
     dead |-> DeadGens, out |-> <<>>, dur |-> dur]

Pass(op) == [Idle EXCEPT !.op = op, !.pc = "ps"]

\* The last response sent (or, for a scheduled firing, the last outcome
\* logged; for a restart, op "boot" and the records the Registry file held
\* when the controller came up).  out: the records the response is about; gen: the incarnation
\* spawned by the handler, 0 when none.  prior, stale, first and boot are
\* not program state: see PriorLive and Stale; first: no response was sent
\* since the controller came up, and boot: what the Registry held then.
NoResp == [op |-> "none", name |-> NoName, res |-> "-", out |-> <<>>,
           gen |-> 0, prior |-> {}, stale |-> "none", first |-> FALSE,
           boot |-> <<>>]

Resp(op, name, res, out, gen, prior) ==
    [op |-> op, name |-> name, res |-> res, out |-> out, gen |-> gen,
     prior |-> prior, stale |-> "none", first |-> FALSE, boot |-> <<>>]

NoLink == <<>>

\* An entry of the activeRecordings Map of src/server.js: the child
\* process object (its incarnation and pid) and the output path.
NoEntry == [gen |-> 0, pid |-> NoPid, outputPath |-> <<>>]

Job1 == [id |-> "j1", cron |-> "ok", name |-> <<"a">>, dur |-> 0]

JobIds == {"j1", "j2"}

\* scheduleCronJob as if it left the task armed under the same id.
scheduleCronJobKeep(armed, job) ==
    IF job.cron # "ok" THEN armed ELSE armed \cup {job}

\* scheduleCronJob: throws on an invalid expression, else replaces the
\* task armed under the same id.
scheduleCronJob(armed, job) ==
    IF job.cron # "ok" THEN armed
    ELSE {j \in armed : j.id # job.id} \cup {job}

RECURSIVE ArmAll(_, _)
ArmAll(jobs, armed) ==
    IF jobs = <<>> THEN armed
    ELSE ArmAll(Tail(jobs), scheduleCronJob(armed, Head(jobs)))

\* loadAndStartCronJobs as if it armed nothing.
loadAndStartCronJobsNone == {}

\* loadAndStartCronJobs on an empty activeCronJobs map.
loadAndStartCronJobs == ArmAll(cronFile, {})

\* What a (re)start of the controller leaves of its memory: one startup
\* pass in flight, no timers, no listeners on the detached children.
BootInflight == [h \in Slots |-> IF h = 1 THEN Pass("startup") ELSE Idle]

Unwatched(P) == [p \in Pids |-> [P[p] EXCEPT !.watched = FALSE]]

\* The controller has just started on an empty recordings directory that
\* holds a schedule of one job; budget requests will be made of it.
BootAs(v, budget) ==
    /\ procs = [p \in Pids |-> NoProc]
    /\ stateFile = Absent
    /\ links = [n \in Names |-> NoLink]
    /\ now = 0
    /\ inflight = BootInflight
    /\ timers = {}
    /\ last = NoResp
    /\ nextGen = 1
    /\ cronFile = <<Job1>>
    /\ activeCronJobs = {Job1}
    /\ variant = v
    /\ activeRecordings = [n \in Names |-> NoEntry]
    /\ nreq = budget

\* The main variant, part_002.
Boot(budget) == BootAs("cron", budget)

Init == Boot(MaxReq)

(* --------------------------- environment ------------------------------ *)
Tick ==
    /\ now < MaxTime
    /\ now' = now + 1
    /\ UNCHANGED <<procs, stateFile, links, inflight, timers, last, nextGen,
                   cronFile, activeCronJobs, variant, activeRecordings, nreq>>

\* nreq: the requests, firings, restarts and planted processes still to come.
Count == nreq > 0 /\ nreq' = nreq - 1

FreePids == {p \in Pids : ~Live(p)}

NewProc(name, watched, managed) ==
    [args |-> generateFilename(name, now), gen |-> nextGen, term |-> FALSE,
     watched |-> watched, managed |-> managed]

\* A transcoder-like process started outside the controller.
Plant(p, n) ==
    /\ p \in FreePids
    /\ nextGen <= MaxGen
    /\ Count
    /\ procs' = [procs EXCEPT ![p] = NewProc(n, FALSE, FALSE)]
    /\ nextGen' = nextGen + 1
    /\ UNCHANGED <<stateFile, links, now, inflight, timers, last, cronFile,
                   activeCronJobs, variant, activeRecordings>>

\* The Registry file is damaged from outside the controller: its bytes no
\* longer parse ("corrupt") or can no longer be read ("unreadable").
Damage(k) ==
    /\ stateFile.kind = "json"
    /\ Count
    /\ stateFile' = [stateFile EXCEPT !.kind = k]
    /\ UNCHANGED <<procs, links, now, inflight, timers, last, nextGen,
                   cronFile, activeCronJobs, variant, activeRecordings>>

\* The volume stops accepting writes and removals.
ReadOnly ==
    /\ ~stateFile.ro
    /\ Count
    /\ stateFile' = [stateFile EXCEPT !.ro = TRUE]
    /\ UNCHANGED <<procs, links, now, inflight, timers, last, nextGen,
                   cronFile, activeCronJobs, variant, activeRecordings>>

\* The exit of the process at pid p: the exit listener registered by the
\* API start, when the controller still holds it, starts a pass.
ExitInflight(P, I, p) ==
    IF P[p].watched THEN [I EXCEPT ![LowestIdle(I)] = Pass("exit")] ELSE I

CanExit(p) == Live(p) /\ (procs[p].watched => HasFree)

\* A process ends on its own or is killed from outside.
ProcExit(p) ==
    /\ CanExit(p)
    /\ procs' = [procs EXCEPT ![p] = NoProc]
    /\ inflight' = ExitInflight(procs, inflight, p)
    /\ UNCHANGED <<stateFile, links, now, timers, last, nextGen, cronFile,
                   activeCronJobs, variant, activeRecordings, nreq>>

\* The setTimeout callback: process.kill(pid, 'SIGKILL') on whatever holds
\* the pid now; a missing pid throws and is ignored.
TimerFire(t) ==
    /\ t \in timers
    /\ Live(t.pid) => CanExit(t.pid)
    /\ timers' = timers \ {t}
    /\ IF Live(t.pid)
       THEN /\ procs' = [procs EXCEPT ![t.pid] = NoProc]
            /\ inflight' = ExitInflight(procs, inflight, t.pid)
       ELSE UNCHANGED <<procs, inflight>>
    /\ UNCHANGED <<stateFile, links, now, last, nextGen, cronFile,
                   activeCronJobs, variant, activeRecordings, nreq>>

\* The controller stops (crash, container restart) and starts again:
\* syncStateWithPs() is called, then loadAndStartCronJobs().
Restart ==
    /\ Count
    /\ procs' = Unwatched(procs)
    /\ inflight' = BootInflight
    /\ timers' = {}
    /\ activeCronJobs' = loadAndStartCronJobs
    /\ last' = [Resp("boot", NoName, "-", loadStateFile(stateFile), 0, {})
                    EXCEPT !.boot = loadStateFile(stateFile)]
    /\ UNCHANGED <<stateFile, links, now, nextGen, cronFile, variant, activeRecordings>>

\* The `ps` child of a pass reads the process table.
PsSnapshot(h) ==
    /\ inflight[h].pc \in {"ps", "ps2"}
    /\ inflight' = [inflight EXCEPT
            ![h].pc = IF inflight[h].pc = "ps" THEN "cont" ELSE "cont2",
            ![h].snap = getRunningFfmpegProcesses,
            ![h].seen = IF inflight[h].pc = "ps" THEN AllLiveGens ELSE @,
            ![h].dead = IF inflight[h].pc = "ps" THEN DeadGens ELSE @]
    /\ UNCHANGED <<procs, stateFile, links, now, timers, last, nextGen,
                   cronFile, activeCronJobs, variant, activeRecordings, nreq>>

\* A pass with no caller waiting: startup, exit and error listeners.
PassContinue(h) ==
    /\ inflight[h].op \in {"startup", "exit"}
    /\ inflight[h].pc = "cont"
    /\ stateFile' = syncStateWithPs(inflight[h].snap, stateFile)
    /\ procs' = SyncProcs(inflight[h].snap, stateFile)
    /\ timers' = SyncTimers(inflight[h].snap, stateFile)
    /\ inflight' = [inflight EXCEPT ![h] = Idle]
    /\ UNCHANGED <<links, now, last, nextGen, cronFile, activeCronJobs,
                   variant, activeRecordings, nreq>>

(* ------------------------------- start -------------------------------- *)
Record(name, path, pid, gen, dur) ==
    [name |-> name, outputPath |-> path, pid |-> pid, gen |-> gen,
     dur |-> dur]

\* The output paths of the transcoders of the handler's name that the
\* controller started, that were running when the handler took its
\* snapshot and still are.
PriorLive(r) ==
    {procs[p].args : p \in {q \in Pids :
        /\ Live(q)
        /\ procs[q].managed
        /\ procs[q].gen \in r.seen
        /\ ExtractName(procs[q].args) = r.name}}

\* "none": every record's process was running when the handler took its
\* snapshot; "kept": file f still holds a record whose process was gone
\* then; "cleaned": it holds none any more.
Stale(r, f) ==
    IF r.dead = {} THEN "none"
    ELSE IF RecGens(loadStateFile(f)) \cap r.dead # {} THEN "kept"
    ELSE "cleaned"

\* createSymlink as if the alias were left as it is.
createSymlinkNone(filename, name) == links

\* createSymlink: links/<name>.mp3 -> ../<filename>; part_003 has none.
createSymlink(filename, name) ==
    IF variant = "cron" THEN [links EXCEPT ![name] = filename] ELSE links

\* POST /api/record/start up to its first await.
StartRequest(name, hasUrl) ==
    /\ Count
    /\ IF ~hasUrl \/ name = NoName
       THEN /\ last' = Resp("start", name, "Required", <<>>, 0, {})
            /\ UNCHANGED inflight
       ELSE IF ~validateName(name)
       THEN /\ last' = Resp("start", name, "InvalidName", <<>>, 0, {})
            /\ UNCHANGED inflight
       ELSE /\ HasFree
            /\ inflight' = [inflight EXCEPT ![FreeSlot] = Begin("start", name, 0)]
            /\ UNCHANGED last
    /\ UNCHANGED <<procs, stateFile, links, now, timers, nextGen, cronFile,
                   activeCronJobs, variant, activeRecordings>>

\* From the duplicate check to the end of the start: shared by the API
\* handler (watched: it registers exit and error listeners) and
\* startRecordingFromCron (it registers none).  onFail is the inflight
\* table after a failed spawn.
Launch(h, watched, onFail) ==
    LET r == inflight[h]
        f1 == syncStateWithPs(r.snap, stateFile)
        P1 == SyncProcs(r.snap, stateFile)
        filename == generateFilename(r.name, now)
    IN /\ links' = createSymlink(filename, r.name)
       /\ \/ \E p \in FreePids :
                /\ nextGen <= MaxGen
                /\ procs' = [P1 EXCEPT ![p] = NewProc(r.name, watched, TRUE)]
                /\ nextGen' = nextGen + 1
                /\ stateFile' = saveStateFile(f1, Append(loadStateFile(f1),
                        Record(r.name, filename, p, nextGen, r.dur)))
                /\ inflight' = [inflight EXCEPT ![h] = Idle]
                /\ last' = Resp(r.op, r.name, "Started",
                        <<Record(r.name, filename, p, nextGen, r.dur)>>,
                        nextGen, PriorLive(r))
                /\ timers' = SyncTimers(r.snap, stateFile)
                /\ UNCHANGED activeCronJobs
          \/ \* spawn fails (ENOENT): child.pid is undefined
             /\ procs' = IF watched THEN P1 ELSE Unwatched(P1)
             /\ UNCHANGED nextGen
             /\ stateFile' = saveStateFile(f1, Append(loadStateFile(f1),
                        Record(r.name, filename, NoPid, 0, r.dur)))
             /\ inflight' = onFail
             /\ last' = Resp(r.op, r.name, "Started",
                        <<Record(r.name, filename, NoPid, 0, r.dur)>>,
                        0, PriorLive(r))
             /\ timers' = IF watched THEN SyncTimers(r.snap, stateFile) ELSE {}
             /\ activeCronJobs' = IF watched THEN activeCronJobs
                                  ELSE loadAndStartCronJobs

\* The duplicate answer of both start paths.
Refuse(h, res) ==
    LET r == inflight[h]
    IN /\ stateFile' = syncStateWithPs(r.snap, stateFile)
       /\ procs' = SyncProcs(r.snap, stateFile)
       /\ timers' = SyncTimers(r.snap, stateFile)
       /\ last' = Resp(r.op, r.name, res, <<>>, 0, PriorLive(r))
       /\ inflight' = [inflight EXCEPT ![h] = Idle]
       /\ UNCHANGED <<links, nextGen, activeCronJobs>>

\* POST /api/record/start from the return of `ps` to the response.  A
\* failed spawn still answers success; its error listener starts a pass.
StartContinue(h) ==
    /\ inflight[h].op = "start"
    /\ inflight[h].pc = "cont"
    /\ IF HasName(getActiveRecordings(inflight[h].snap, stateFile),
                  inflight[h].name)
       THEN Refuse(h, "Duplicate")
       ELSE Launch(h, TRUE, [inflight EXCEPT ![h] = Pass("exit")])
    /\ UNCHANGED <<now, cronFile, variant, activeRecordings, nreq>>

(* -------------------------------- stop -------------------------------- *)
\* POST /api/record/stop up to its first await.
StopRequest(name) ==
    /\ Count
    /\ IF name = NoName
       THEN /\ last' = Resp("stop", name, "Required", <<>>, 0, {})
            /\ UNCHANGED inflight
       ELSE /\ HasFree
            /\ inflight' = [inflight EXCEPT ![FreeSlot] = Begin("stop", name, 0)]
            /\ UNCHANGED last
    /\ UNCHANGED <<procs, stateFile, links, now, timers, nextGen, cronFile,
                   activeCronJobs, variant, activeRecordings>>

\* From the return of `ps` to the second `await syncStateWithPs()`.  The
\* signal goes to whatever holds the pid; it fails when nothing does.
StopContinue(h) ==
    /\ inflight[h].op = "stop"
    /\ inflight[h].pc = "cont"
    /\ LET r == inflight[h]
           P1 == SyncProcs(r.snap, stateFile)
           T1 == SyncTimers(r.snap, stateFile)
           recordings == getActiveRecordings(r.snap, stateFile)
       IN /\ stateFile' = syncStateWithPs(r.snap, stateFile)
          /\ IF ~HasName(recordings, r.name)
             THEN /\ procs' = P1
                  /\ timers' = T1
                  /\ last' = Resp("stop", r.name, "NotFound", <<>>, 0, {})
                  /\ inflight' = [inflight EXCEPT ![h] = Idle]
             ELSE LET recording == FindName(recordings, r.name)
                  IN /\ procs' = TermProcs(P1, {recording.pid})
                     /\ timers' = T1 \cup KillTimers(P1, {recording.pid})
                     /\ inflight' = [inflight EXCEPT
                            ![h].pc = "ps2",
                            ![h].out = <<recording>>,
                            ![h].dead = IF Live(recording.pid) THEN {}
                                        ELSE {recording.gen}]
                     /\ UNCHANGED last
    /\ UNCHANGED <<links, now, nextGen, cronFile, activeCronJobs, variant, activeRecordings,
                   nreq>>

\* After the second pass: the response.
StopFinish(h) ==
    /\ inflight[h].op = "stop"
    /\ inflight[h].pc = "cont2"
    /\ LET r == inflight[h]
       IN /\ stateFile' = syncStateWithPs(r.snap, stateFile)
          /\ procs' = SyncProcs(r.snap, stateFile)
          /\ timers' = SyncTimers(r.snap, stateFile)
          /\ last' = [Resp("stop", r.name, "Stopped", r.out, 0, {})
                          EXCEPT !.stale = Stale(r,
                                     syncStateWithPs(r.snap, stateFile))]
          /\ inflight' = [inflight EXCEPT ![h] = Idle]
    /\ UNCHANGED <<links, now, nextGen, cronFile, activeCronJobs, variant, activeRecordings,
                   nreq>>

(* ------------------------------ stop-all ------------------------------ *)
StopAllRequest ==
    /\ Count
    /\ HasFree
    /\ inflight' = [inflight EXCEPT ![FreeSlot] = Begin("stopAll", NoName, 0)]
    /\ UNCHANGED <<procs, stateFile, links, now, timers, last, nextGen,
                   cronFile, activeCronJobs, variant, activeRecordings>>

\* RecPids as if the loop ended after its first record.
RecPidsFirst(recs) == IF recs = <<>> THEN {} ELSE {recs[1].pid}

RecPids(recs) == {recs[i].pid : i \in 1..Len(recs)}

\* SIGTERM to every record's pid; `stopped` keeps the records whose signal
\* did not throw.
StopAllContinue(h) ==
    /\ inflight[h].op = "stopAll"
    /\ inflight[h].pc = "cont"
    /\ LET r == inflight[h]
           P1 == SyncProcs(r.snap, stateFile)
           T1 == SyncTimers(r.snap, stateFile)
           recordings == getActiveRecordings(r.snap, stateFile)
           Hit(rec) == rec.pid \in Signalled(P1, {rec.pid})
       IN /\ stateFile' = syncStateWithPs(r.snap, stateFile)
          /\ procs' = TermProcs(P1, RecPids(recordings))
          /\ timers' = T1 \cup KillTimers(P1, RecPids(recordings))
          /\ inflight' = [inflight EXCEPT ![h].pc = "ps2",
                          ![h].out = SelectSeq(recordings, Hit)]
    /\ UNCHANGED <<links, now, last, nextGen, cronFile, activeCronJobs,
                   variant, activeRecordings, nreq>>

StopAllFinish(h) ==
    /\ inflight[h].op = "stopAll"
    /\ inflight[h].pc = "cont2"
    /\ LET r == inflight[h]
       IN /\ stateFile' = syncStateWithPs(r.snap, stateFile)
          /\ procs' = SyncProcs(r.snap, stateFile)
          /\ timers' = SyncTimers(r.snap, stateFile)
          /\ last' = Resp("stopAll", NoName, "Stopped", r.out, 0, {})
          /\ inflight' = [inflight EXCEPT ![h] = Idle]
    /\ UNCHANGED <<links, now, nextGen, cronFile, activeCronJobs, variant, activeRecordings,
                   nreq>>

(* ------------------------------- status ------------------------------- *)
\* GET /api/record/status; an empty name asks for the whole list.
StatusRequest(name) ==
    /\ Count
    /\ HasFree
    /\ inflight' = [inflight EXCEPT ![FreeSlot] = Begin("status", name, 0)]
    /\ UNCHANGED <<procs, stateFile, links, now, timers, last, nextGen,
                   cronFile, activeCronJobs, variant, activeRecordings>>

StatusContinue(h) ==
    /\ inflight[h].op = "status"
    /\ inflight[h].pc = "cont"
    /\ LET r == inflight[h]
           f1 == syncStateWithPs(r.snap, stateFile)
           recordings == getActiveRecordings(r.snap, stateFile)
           answer ==
               IF r.name = NoName
               THEN Resp("status", r.name, "list", recordings, 0, PriorLive(r))
               ELSE IF ~HasName(recordings, r.name)
               THEN Resp("status", r.name, "inactive", <<>>, 0, PriorLive(r))
               ELSE Resp("status", r.name, "active",
                         <<FindName(recordings, r.name)>>, 0, PriorLive(r))
       IN /\ stateFile' = f1
          /\ procs' = SyncProcs(r.snap, stateFile)
          /\ timers' = SyncTimers(r.snap, stateFile)
          /\ last' = [answer EXCEPT !.stale = Stale(r, f1),
                                     !.first = (last.op = "boot"),
                                     !.boot = IF last.op = "boot"
                                              THEN last.out ELSE <<>>]
          /\ inflight' = [inflight EXCEPT ![h] = Idle]
    /\ UNCHANGED <<links, now, nextGen, cronFile, activeCronJobs, variant, activeRecordings,
                   nreq>>

(* -------------------------------- cron -------------------------------- *)
\* An armed task fires: startRecordingFromCron up to its first await.
CronFire(job) ==
    /\ job \in activeCronJobs
    /\ Count
    /\ HasFree
    /\ inflight' = [inflight EXCEPT
                        ![FreeSlot] = Begin("cron", job.name, job.dur)]
    /\ UNCHANGED <<procs, stateFile, links, now, timers, last, nextGen,
                   cronFile, activeCronJobs, variant, activeRecordings>>

HasJob(id) == \E i \in 1..Len(cronFile) : cronFile[i].id = id

FindJob(id) ==
    cronFile[CHOOSE i \in 1..Len(cronFile) :
                /\ cronFile[i].id = id
                /\ \A j \in 1..(i - 1) : cronFile[j].id # id]

\* GET /api/cron/:id/test
CronTest(id) ==
    /\ Count
    /\ IF ~HasJob(id)
       THEN /\ last' = Resp("test", NoName, "NotFound", <<>>, 0, {})
            /\ UNCHANGED inflight
       ELSE /\ HasFree
            /\ inflight' = [inflight EXCEPT ![FreeSlot] =
                    Begin("test", FindJob(id).name, FindJob(id).dur)]
            /\ UNCHANGED last
    /\ UNCHANGED <<procs, stateFile, links, now, timers, nextGen, cronFile,
                   activeCronJobs, variant, activeRecordings>>

\* startRecordingFromCron from the return of `ps` on.  It registers no
\* error listener, so the 'error' event of a failed spawn is unhandled and
\* ends the controller, which is started again.
CronContinue(h) ==
    /\ inflight[h].op \in {"cron", "test"}
    /\ inflight[h].pc = "cont"
    /\ IF HasName(getActiveRecordings(inflight[h].snap, stateFile),
                  inflight[h].name)
       THEN Refuse(h, "Skipped")
       ELSE Launch(h, FALSE, BootInflight)
    /\ UNCHANGED <<now, cronFile, variant, activeRecordings, nreq>>

\* parseInt: the decimal value of the longest prefix of the text that is an
\* optional sign and digits; NaN when that prefix holds no digit.
Digits == {"0", "1"}

DigitVal(c) == IF c = "1" THEN 1 ELSE 0

NaN == [nan |-> TRUE, val |-> 0]

RECURSIVE LeadingDigits(_)
LeadingDigits(s) ==
    IF s = <<>> \/ Head(s) \notin Digits THEN <<>>
    ELSE <<Head(s)>> \o LeadingDigits(Tail(s))

RECURSIVE DecValue(_, _)
DecValue(ds, acc) ==
    IF ds = <<>> THEN acc
    ELSE DecValue(Tail(ds), 10 * acc + DigitVal(Head(ds)))

parseInt(s) ==
    LET neg == s # <<>> /\ Head(s) = "-"
        ds  == LeadingDigits(IF neg THEN Tail(s) ELSE s)
    IN IF ds = <<>> THEN NaN
       ELSE [nan |-> FALSE,
             val |-> IF neg THEN 0 - DecValue(ds, 0) ELSE DecValue(ds, 0)]

\* durationMinutes of a request body, as its text.  NoDur: the field is
\* missing or null.
NoDur == <<"null">>

DurInputs == {NoDur, <<>>, <<"0">>, <<"1">>, <<"-", "1">>, <<"1", "x">>,
              <<"x">>}

\* const duration = durationMinutes ? parseInt(durationMinutes) : null
duration(dm) ==
    IF dm = NoDur \/ dm = <<>> THEN [nan |-> FALSE, val |-> 0]
    ELSE parseInt(dm)

\* The duration check of POST /api/cron: isNaN(duration) || duration <= 0
\* when the body carries the field.
BadDuration(dm) ==
    /\ dm # NoDur
    /\ (duration(dm).nan \/ duration(dm).val <= 0)

\* const job = { id, cron, streamUrl, name, durationMinutes: duration };
\* dur 0 is the null of a definition with no limit.
JobOf(d) ==
    [id |-> d.id, cron |-> d.cron, name |-> d.name,
     dur |-> duration(d.dur).val]

\* The request bodies of POST /api/cron.  id and cron "" and name <<>>:
\* the field is missing; cron "bad": cron.validate rejects it.
CronExprs == {"ok", "bad", ""}

Defs == [id : JobIds \cup {""}, cron : CronExprs,
         name : {<<"a">>, <<"a", "_">>, NoName}, dur : DurInputs]

JobIndex(jobs, id) ==
    CHOOSE i \in 1..Len(jobs) :
        /\ jobs[i].id = id
        /\ \A j \in 1..(i - 1) : jobs[j].id # id

\* schedule.jobs[existingIndex] = job, or schedule.jobs.push(job).
upsertJob(jobs, d) ==
    IF \E i \in 1..Len(jobs) : jobs[i].id = d.id
    THEN [jobs EXCEPT ![JobIndex(jobs, d.id)] = d]
    ELSE Append(jobs, d)

\* removeJob as if the filter kept the job of that id.
removeJobNone(jobs, id) == jobs

\* schedule.jobs.filter(j => j.id !== id)
removeJob(jobs, id) ==
    LET Other(j) == j.id # id
    IN SelectSeq(jobs, Other)

\* saveCronSchedule: the write of cron.json; a failure is logged and
\* nothing is thrown.  The file lies in the directory of the Registry file.
saveCronSchedule(f, jobs) == IF stateFile.ro THEN f ELSE jobs

\* cron.json is edited by hand: the operator writes the definition j under
\* its id.  The controller does not watch the file.
HandJobs ==
    [id : JobIds, cron : {"ok", "bad"}, name : {<<"a">>, <<"a", "_">>},
     dur : {0, 1}]

EditSchedule(j) ==
    /\ Count
    /\ ~stateFile.ro
    /\ cronFile' = Append(removeJob(cronFile, j.id), j)
    /\ UNCHANGED <<procs, stateFile, links, now, inflight, timers, last,
                   nextGen, activeCronJobs, variant, activeRecordings>>

\* POST /api/cron.  The answer to a saved definition carries the job; boot
\* then keeps what the schedule file held before.
CronAdd(d, hasUrl) ==
    /\ Count
    /\ IF d.id = "" \/ d.cron = "" \/ ~hasUrl \/ d.name = NoName
       THEN /\ last' = Resp("cronAdd", d.name, "Required", <<>>, 0, {})
            /\ UNCHANGED <<cronFile, activeCronJobs>>
       ELSE IF ~validateName(d.name)
       THEN /\ last' = Resp("cronAdd", d.name, "InvalidName", <<>>, 0, {})
            /\ UNCHANGED <<cronFile, activeCronJobs>>
       ELSE IF BadDuration(d.dur)
       THEN /\ last' = Resp("cronAdd", d.name, "InvalidDuration", <<>>, 0, {})
            /\ UNCHANGED <<cronFile, activeCronJobs>>
       ELSE IF d.cron # "ok"
       THEN /\ last' = Resp("cronAdd", d.name, "InvalidCron", <<>>, 0, {})
            /\ UNCHANGED <<cronFile, activeCronJobs>>
       ELSE /\ cronFile' = saveCronSchedule(cronFile,
                                            upsertJob(cronFile, JobOf(d)))
            /\ activeCronJobs' = scheduleCronJob(activeCronJobs, JobOf(d))
            /\ last' = [Resp("cronAdd", d.name, "Saved", <<JobOf(d)>>, 0, {})
                            EXCEPT !.boot = cronFile]
    /\ UNCHANGED <<procs, stateFile, links, now, inflight, timers, nextGen,
                   variant, activeRecordings>>

\* DELETE /api/cron/:id.  first: the request follows the saved add of the
\* same id, and boot is then the schedule file from before that add.
CronRemove(id) ==
    /\ Count
    /\ activeCronJobs' = {j \in activeCronJobs : j.id # id}
    /\ cronFile' = saveCronSchedule(cronFile, removeJob(cronFile, id))
    /\ LET follows == /\ last.op = "cronAdd"
                      /\ last.res = "Saved"
                      /\ last.out[1].id = id
       IN last' = [Resp("cronDel", NoName, "Deleted", <<>>, 0, {})
                      EXCEPT !.first = follows,
                             !.boot = IF follows THEN last.boot ELSE <<>>]
    /\ UNCHANGED <<procs, stateFile, links, now, inflight, timers, nextGen,
                   variant, activeRecordings>>

(* ------------------------------- system ------------------------------- *)
Next ==
    \/ Tick
    \/ \E p \in Pids, n \in ValidNames : Plant(p, n)
    \/ \E p \in Pids : ProcExit(p)
    \/ \E t \in timers : TimerFire(t)
    \/ Restart
    \/ \E h \in Slots : PsSnapshot(h)
    \/ \E h \in Slots : PassContinue(h)
    \/ \E n \in Names, u \in BOOLEAN : StartRequest(n, u)
    \/ \E h \in Slots : StartContinue(h)
    \/ \E n \in Names : StopRequest(n)
    \/ \E h \in Slots : StopContinue(h)
    \/ \E h \in Slots : StopFinish(h)
    \/ StopAllRequest
    \/ \E h \in Slots : StopAllContinue(h)
    \/ \E h \in Slots : StopAllFinish(h)
    \/ \E n \in ValidNames \cup {NoName} : StatusRequest(n)
    \/ \E h \in Slots : StatusContinue(h)
    \/ \E j \in activeCronJobs : CronFire(j)
    \/ \E id \in JobIds : CronTest(id)
    \/ \E h \in Slots : CronContinue(h)

Spec == Init /\ [][Next]_vars

\* The lifecycle on well-formed requests only, with a larger budget.
LifeReq == 3

InitLife == Boot(LifeReq)

NextLife ==
    \/ Tick
    \/ \E p \in Pids, n \in ValidNames : Plant(p, n)
    \/ \E p \in Pids : ProcExit(p)
    \/ \E h \in Slots : PsSnapshot(h)
    \/ \E h \in Slots : PassContinue(h)
    \/ \E n \in ValidNames : StartRequest(n, TRUE)
    \/ \E h \in Slots : StartContinue(h)
    \/ \E n \in ValidNames \cup {NoName} : StatusRequest(n)
    \/ \E h \in Slots : StatusContinue(h)

SpecLife == InitLife /\ [][NextLife]_vars

\* Restart recovery: starts, foreign transcoders, restarts and status calls.
BootReq == 4

InitBoot == Boot(BootReq)

NextBoot ==
    \/ \E p \in Pids, n \in ValidNames : Plant(p, n)
    \/ \E p \in Pids : ProcExit(p)
    \/ Restart
    \/ \E h \in Slots : PsSnapshot(h)
    \/ \E h \in Slots : PassContinue(h)
    \/ \E n \in ValidNames : StartRequest(n, TRUE)
    \/ \E h \in Slots : StartContinue(h)
    \/ \E n \in {<<"a">>, NoName} : StatusRequest(n)
    \/ \E h \in Slots : StatusContinue(h)

SpecBoot == InitBoot /\ [][NextBoot]_vars

\* Stopping: starts, stops, the kill timers and restarts.
StopReq == 3

InitStop == Boot(StopReq)

NextStop ==
    \/ \E p \in Pids : ProcExit(p)
    \/ \E t \in timers : TimerFire(t)
    \/ Restart
    \/ \E h \in Slots : PsSnapshot(h)
    \/ \E h \in Slots : PassContinue(h)
    \/ \E n \in ValidNames : StartRequest(n, TRUE)
    \/ \E h \in Slots : StartContinue(h)
    \/ \E n \in ValidNames : StopRequest(n)
    \/ \E h \in Slots : StopContinue(h)
    \/ \E h \in Slots : StopFinish(h)

SpecStop == InitStop /\ [][NextStop]_vars

\* SpecStop with the scheduling of the event loop: a timer that is due
\* fires, a `ps` child returns, a handler whose await returned goes on.
\* Nothing makes a process exit and nothing restarts the controller.
FairStop ==
    /\ SpecStop
    /\ WF_vars(\E t \in timers : TimerFire(t))
    /\ WF_vars(\E h \in Slots : PsSnapshot(h))
    /\ WF_vars(\E h \in Slots : PassContinue(h) \/ StartContinue(h)
                                    \/ StopContinue(h) \/ StopFinish(h))

\* Faults of the Registry file: damage and failed writes.
FaultReq == 3

InitFault == Boot(FaultReq)

NextFault ==
    \/ \E k \in {"corrupt", "unreadable"} : Damage(k)
    \/ ReadOnly
    \/ \E p \in Pids : ProcExit(p)
    \/ \E h \in Slots : PsSnapshot(h)
    \/ \E h \in Slots : PassContinue(h)
    \/ \E n \in ValidNames : StartRequest(n, TRUE)
    \/ \E h \in Slots : StartContinue(h)
    \/ \E n \in ValidNames : StopRequest(n)
    \/ \E h \in Slots : StopContinue(h)
    \/ \E h \in Slots : StopFinish(h)
    \/ StopAllRequest
    \/ \E h \in Slots : StopAllContinue(h)
    \/ \E h \in Slots : StopAllFinish(h)
    \/ \E n \in ValidNames \cup {NoName} : StatusRequest(n)
    \/ \E h \in Slots : StatusContinue(h)

SpecFault == InitFault /\ [][NextFault]_vars

\* The schedule: definitions added and removed, firings and restarts.
CronReq == 4

InitCron == Boot(CronReq)

NextCron ==
    \/ \E p \in Pids : ProcExit(p)
    \/ Restart
    \/ \E h \in Slots : PsSnapshot(h)
    \/ \E h \in Slots : PassContinue(h)
    \/ \E d \in Defs, u \in BOOLEAN : CronAdd(d, u)
    \/ \E id \in JobIds : CronRemove(id)
    \/ \E j \in activeCronJobs : CronFire(j)
    \/ \E id \in JobIds : CronTest(id)
    \/ \E h \in Slots : CronContinue(h)

SpecCron == InitCron /\ [][NextCron]_vars

\* The schedule with the volume turning read-only and cron.json edited by
\* hand; the API adds well-formed definitions.
SchedReq == 3

InitSched == Boot(SchedReq)

NextSched ==
    \/ ReadOnly
    \/ \E j \in HandJobs : EditSchedule(j)
    \/ \E p \in Pids : ProcExit(p)
    \/ Restart
    \/ \E h \in Slots : PsSnapshot(h)
    \/ \E h \in Slots : PassContinue(h)
    \/ \E id \in JobIds, dm \in {NoDur, <<"1">>} :
           CronAdd([id |-> id, cron |-> "ok", name |-> <<"a">>, dur |-> dm],
                   TRUE)
    \/ \E id \in JobIds : CronRemove(id)
    \/ \E j \in activeCronJobs : CronFire(j)
    \/ \E id \in JobIds : CronTest(id)
    \/ \E h \in Slots : CronContinue(h)

SpecSched == InitSched /\ [][NextSched]_vars

\* The variant of part_003: orphans are signalled, entries are matched by
\* pid alone, and there is neither a schedule nor an alias.
PsReq == 3

InitPs == BootAs("ps", PsReq)

NextPs ==
    \/ \E p \in Pids, n \in ValidNames : Plant(p, n)
    \/ \E p \in Pids : ProcExit(p)
    \/ \E t \in timers : TimerFire(t)
    \/ Restart
    \/ \E h \in Slots : PsSnapshot(h)
    \/ \E h \in Slots : PassContinue(h)
    \/ \E n \in {<<"a">>} : StartRequest(n, TRUE)
    \/ \E h \in Slots : StartContinue(h)
    \/ \E n \in {<<"a">>} : StopRequest(n)
    \/ \E h \in Slots : StopContinue(h)
    \/ \E h \in Slots : StopFinish(h)

SpecPs == InitPs /\ [][NextPs]_vars

\* Reuse of process ids: starts and stops of one name, exits, transcoders
\* started outside the controller, and the kill timers.
ReuseReq == 3

InitReuse == Boot(ReuseReq)

NextReuse ==
    \/ \E p \in Pids, n \in ValidNames : Plant(p, n)
    \/ \E p \in Pids : ProcExit(p)
    \/ \E t \in timers : TimerFire(t)
    \/ \E h \in Slots : PsSnapshot(h)
    \/ \E h \in Slots : PassContinue(h)
    \/ \E n \in {<<"a">>} : StartRequest(n, TRUE)
    \/ \E h \in Slots : StartContinue(h)
    \/ \E n \in {<<"a">>} : StopRequest(n)
    \/ \E h \in Slots : StopContinue(h)
    \/ \E h \in Slots : StopFinish(h)

SpecReuse == InitReuse /\ [][NextReuse]_vars

(* ------------------------------ claims -------------------------------- *)
Registry == loadStateFile(stateFile)

Managed(p) == Live(p) /\ procs[p].managed

\* Handler h completes a pass over its process snapshot in this step.
PassEnds(h) ==
    \/ PassContinue(h)
    \/ StatusContinue(h)
    \/ StartContinue(h)
    \/ CronContinue(h)
    \/ StopContinue(h)
    \/ StopFinish(h)
    \/ StopAllContinue(h)
    \/ StopAllFinish(h)

\* The records of recs whose pid the snapshot holds under their name.
Matching(recs, snap) ==
    LET Hit(r) == [pid |-> r.pid, name |-> r.name] \in snap
    IN SelectSeq(recs, Hit)

\* C1: once start(n) has returned success and while its transcoder is
\* still running, every later start(n) answers 'Recording with this name is
\* already in progress', spawns no process and adds no Registry record.
C1_LaterStartRefused ==
    (last.op = "start" /\ last.prior # {}) =>
        (last.res = "Duplicate" /\ last.gen = 0 /\ last.out = <<>>)

\* Handler h spawns a transcoder and appends its record in this step.
Appends(h) ==
    /\ inflight[h].op \in {"start", "cron", "test"}
    /\ inflight[h].pc = "cont"
    /\ inflight'[h].op = "idle"
    /\ nextGen' = nextGen + 1

\* A transcoder of h's name that the controller spawned after h had taken
\* its snapshot: its handler and h both queried before either wrote.
Raced(h) ==
    \E p \in Pids :
        /\ Managed(p)
        /\ procs[p].gen \notin inflight[h].seen
        /\ ExtractName(procs[p].args) = inflight[h].name

\* C2 as stated: at most one record per name, and two start(n) handlers
\* that both query the Reconciler before either writes never both append a
\* record for n.
C2_NeverBothAppend ==
    /\ [](\A i, j \in 1..Len(Registry) :
                Registry[i].name = Registry[j].name => i = j)
    /\ [][\A h \in Slots : Appends(h) => ~Raced(h)]_vars

C4_StatusAndAlias ==
    /\ (last.op = "status" /\ last.name # NoName /\ last.prior # {}) =>
            (last.res = "active" /\ last.out[1].outputPath \in last.prior)
    /\ \A p \in Pids :
            (Managed(p) /\ ExtractName(procs[p].args) \in ValidNames) =>
                links[ExtractName(procs[p].args)] = procs[p].args

C6_OrphanSignalled ==
    [][\A h \in Slots :
          PassEnds(h) =>
            \A q \in inflight[h].snap :
                ( /\ Live(q.pid)
                  /\ ExtractName(procs[q.pid].args) = q.name
                  /\ q.pid \notin RecPids(Registry)
                  /\ procs'[q.pid].gen = procs[q.pid].gen )
                => procs'[q.pid].term]_vars

\* A persisted record whose process still runs when handler h answers is
\* returned, stays in the Registry, and its process is not signalled.
LiveKept(h) ==
    \A i \in 1..Len(last.out) :
        (\E p \in Pids : /\ procs'[p] # NoProc
                          /\ procs'[p].gen = last.out[i].gen) =>
            /\ \E j \in 1..Len(Registry') : Registry'[j] = last.out[i]
            /\ ~procs'[last.out[i].pid].term
            /\ inflight[h].name \in {NoName, last.out[i].name} =>
                    \E j \in 1..Len(last'.out) : last'.out[j] = last.out[i]

NoActive(h) ==
    Matching(Registry, inflight[h].snap) =
        LET Other(r) == r.name # inflight[h].name
        IN SelectSeq(Matching(Registry, inflight[h].snap), Other)

C8_StopNotFound ==
    [][\A h \in Slots :
          (StopContinue(h) /\ NoActive(h)) =>
            /\ last'.op = "stop" /\ last'.res = "NotFound"
            /\ inflight'[h] = Idle
            /\ procs' = procs
            /\ timers' = timers
            /\ links' = links
            /\ Registry' = Matching(Registry, inflight[h].snap)]_vars

C8_Witness ==
    /\ last.op = "stop"
    /\ last.res = "NotFound"
    /\ Registry # <<>>
    /\ \E p \in Pids : Live(p) /\ ~procs[p].term

\* C9: stop(n) for an active name returns the outputPath of n's record,
\* signals that record's process, and the process is gone by the end of
\* the grace period: while it runs on, its forceful kill is pending.
C9_StopKills ==
    /\ (last.op = "stop" /\ last.res = "Stopped") =>
            /\ Len(last.out) = 1
            /\ last.out[1].name = last.name
            /\ \A p \in Pids :
                    (Live(p) /\ procs[p].gen = last.out[1].gen) =>
                        (p = last.out[1].pid /\ procs[p].term)
    /\ \A p \in Pids :
            (Live(p) /\ procs[p].term) =>
                [pid |-> p, gen |-> procs[p].gen] \in timers

\* C10: when the transcoder cannot be spawned, start surfaces an error and
\* writes no Registry record.
C10_SpawnFailureSurfaced ==
    (last.op = "start" /\ last.res = "Started") =>
        (last.gen # 0 /\ last.out[1].pid # NoPid)

\* C11: whenever start(n) answers success for a transcoder it spawned, the
\* Registry file at that moment holds a record of n with the pid of that
\* transcoder; a failed write of the file never ends in a success answer.
C11_RecordBeforeSuccess ==
    [][\A h \in Slots :
          (StartContinue(h) /\ last'.res = "Started" /\ last'.gen # 0) =>
            \E i \in 1..Len(Registry') : Registry'[i] = last'.out[1]]_vars

\* C12: when the Registry file is missing, unreadable or not valid JSON,
\* loadStateFile returns the empty sequence and every operation that
\* called it completes with the Registry treated as empty: status reports
\* nothing active, stop answers NotFound, stop-all signals nothing, start
\* finds no duplicate, and a pass leaves file and processes alone.
C12_LoadNeverFails ==
    [][\A h \in Slots :
          stateFile.kind # "json" =>
            /\ loadStateFile(stateFile) = <<>>
            /\ StatusContinue(h) =>
                    /\ last'.op = "status"
                    /\ last'.res \in {"list", "inactive"}
                    /\ last'.out = <<>>
                    /\ inflight'[h] = Idle
            /\ StopContinue(h) =>
                    /\ last'.op = "stop"
                    /\ last'.res = "NotFound"
                    /\ inflight'[h] = Idle
            /\ StopAllContinue(h) =>
                    /\ inflight'[h].pc = "ps2"
                    /\ inflight'[h].out = <<>>
                    /\ procs' = procs
                    /\ timers' = timers
            /\ StartContinue(h) =>
                    /\ last'.op = "start"
                    /\ last'.res = "Started"
                    /\ inflight'[h].op # "start"
            /\ PassContinue(h) =>
                    /\ inflight'[h] = Idle
                    /\ stateFile' = stateFile
                    /\ procs' = procs]_vars

\* A status call answered with the empty list while a transcoder the
\* controller started runs and the damaged file still holds its record.
C12_Witness ==
    /\ stateFile.kind \in {"corrupt", "unreadable"}
    /\ Len(stateFile.recs) > 0
    /\ last.op = "status"
    /\ last.res = "list"
    /\ last.out = <<>>
    /\ \E p \in Pids : Managed(p) /\ stateFile.recs[1].pid = p

\* C13: a pass that finds the Registry file corrupt treats the Registry as
\* empty and sends a termination signal to every transcoder running in its
\* process snapshot.
C13_CorruptKillsAll ==
    [][\A h \in Slots :
          (PassEnds(h) /\ stateFile.kind = "corrupt") =>
            /\ loadStateFile(stateFile) = <<>>
            /\ \A q \in inflight[h].snap :
                    ( /\ Live(q.pid)
                      /\ ExtractName(procs[q.pid].args) = q.name
                      /\ procs'[q.pid].gen = procs[q.pid].gen )
                    => procs'[q.pid].term]_vars

\* C14: of the stop requests for one active name exactly one succeeds and
\* signals the process: a stop(n) that reaches its lookup when the running
\* transcoder of n has already been sent the termination signal answers
\* NotFound and sends no second signal.
C14_OneStopWins ==
    [][\A h \in Slots :
          ( /\ StopContinue(h)
            /\ \E p \in Pids :
                    /\ Live(p)
                    /\ procs[p].term
                    /\ ExtractName(procs[p].args) = inflight[h].name ) =>
            /\ last'.op = "stop"
            /\ last'.res = "NotFound"
            /\ inflight'[h] = Idle
            /\ timers' = timers]_vars

\* Record r is one of the sequence recs.
InSeq(r, recs) == \E i \in 1..Len(recs) : recs[i] = r

\* C15: stop-all signals every record of the active set whose pid exists,
\* whatever happens to the others, and the list it returns holds exactly
\* the records whose signal was delivered.
C15_StopAllBestEffort ==
    [][\A h \in Slots :
          /\ StopAllContinue(h) =>
                /\ \A i \in 1..Len(Registry') :
                        IF Live(Registry'[i].pid)
                        THEN /\ procs'[Registry'[i].pid].term
                             /\ InSeq(Registry'[i], inflight'[h].out)
                        ELSE ~InSeq(Registry'[i], inflight'[h].out)
                /\ \A j \in 1..Len(inflight'[h].out) :
                        InSeq(inflight'[h].out[j], Registry')
          /\ StopAllFinish(h) =>
                /\ last'.op = "stopAll"
                /\ last'.out = inflight[h].out]_vars

\* Stop-all over two records, one of whose processes had exited after the
\* process table was read: its signal fails, the other is signalled and is
\* the only one returned.
C15_Witness ==
    \E h \in Slots :
        /\ inflight[h].op = "stopAll"
        /\ inflight[h].pc = "ps2"
        /\ Len(Registry) = 2
        /\ Len(inflight[h].out) = 1
        /\ \E p \in Pids : Live(p) /\ procs[p].term

\* The Registry holds a record of name n whose own process is running.
ActiveRecord(n) ==
    \E i \in 1..Len(Registry) :
        /\ Registry[i].name = n
        /\ Live(Registry[i].pid)
        /\ procs[Registry[i].pid].gen = Registry[i].gen

\* C16: a firing (scheduled or manual) that reaches its duplicate check
\* while its name has an active record is skipped: no process is spawned,
\* alias and Registry stay as they are; so captures started by schedules
\* never overlap for one name.
C16_FiringSkipped ==
    [][\A h \in Slots :
          (CronContinue(h) /\ ActiveRecord(inflight[h].name)) =>
            /\ last'.res = "Skipped"
            /\ nextGen' = nextGen
            /\ procs' = procs
            /\ links' = links
            /\ stateFile' = stateFile]_vars

JobSet(jobs) == {jobs[i] : i \in 1..Len(jobs)}

\* The removal of id follows the saved add of a definition with that id.
RoundTrip(id) ==
    /\ CronRemove(id)
    /\ last.op = "cronAdd"
    /\ last.res = "Saved"
    /\ last.out[1].id = id

PurePass(h) ==
    \/ PassContinue(h)
    \/ StatusContinue(h)
    \/ StopFinish(h)
    \/ StopAllFinish(h)

C20_NoPathReuse ==
    [][\A h \in Slots :
          (/\ StartContinue(h)
           /\ last.op = "start" /\ last.res = "Started" /\ last.gen # 0
           /\ \A p \in Pids : Live(p) => procs[p].gen # last.gen
           /\ last'.res = "Started" /\ last'.gen # 0)
              => last'.out[1].outputPath # last.out[1].outputPath]_vars

\* Handler h answers a start (API start or firing) with success in this step.
Starts(h) ==
    /\ StartContinue(h) \/ CronContinue(h)
    /\ last'.res = "Started"

ReusedHandle(q) ==
    /\ Live(q.pid)
    /\ ExtractName(procs[q.pid].args) = q.name
    /\ \E i \in 1..Len(Registry) : Registry[i].pid = q.pid
    /\ \A i \in 1..Len(Registry) :
           Registry[i].pid = q.pid => Registry[i].name # q.name

\* C23: a pass that finds the pid of a Registry entry held by a live
\* transcoder of a different name drops the entry, signals that transcoder
\* and leaves a forceful kill pending for it.
C23_ReusedHandleSignalled ==
    [][\A h \in Slots :
          PassEnds(h) =>
            \A q \in inflight[h].snap :
                (ReusedHandle(q) /\ procs'[q.pid].gen = procs[q.pid].gen)
                    => /\ procs'[q.pid].term
                       /\ \E t \in timers' : t.pid = q.pid
                       /\ \A i \in 1..Len(Registry') :
                              Registry'[i].pid # q.pid]_vars

\* C24: a successful start has replaced the alias, spawned the transcoder
\* on the path the alias references, and appended the record that carries
\* the pid the spawn returned; no record carries another handle.
C24_SpawnedHandleRecorded ==
    [][\A h \in Slots :
          Starts(h) =>
              /\ links'[last'.name] = last'.out[1].outputPath
              /\ \E p \in Pids :
                     /\ procs'[p].gen # 0
                     /\ procs'[p].gen = last'.gen
                     /\ procs'[p].args = links'[last'.name]
                     /\ last'.out[1].pid = p
              /\ \E i \in 1..Len(Registry') : Registry'[i] = last'.out[1]]_vars

\* C25: the record of a transcoder that is running under the record's pid
\* and name stays in the Registry, whatever passes and starts interleave.
C25_LiveRecordKept ==
    [][\A i \in 1..Len(Registry) :
          (/\ Registry[i].pid \in Pids
           /\ Live(Registry[i].pid)
           /\ procs[Registry[i].pid].gen = Registry[i].gen
           /\ procs'[Registry[i].pid].gen = Registry[i].gen)
              => \E j \in 1..Len(Registry') : Registry'[j] = Registry[i]]_vars

\* Record r names a transcoder that runs under r's pid before and after the
\* step, and the step removes r from the Registry.
Discarded(r) ==
    /\ r.pid \in Pids
    /\ Live(r.pid)
    /\ procs[r.pid].gen = r.gen
    /\ procs'[r.pid].gen = r.gen
    /\ \A j \in 1..Len(Registry') : Registry'[j] # r

SignalFails(h) ==
    /\ StopContinue(h)
    /\ inflight'[h].pc = "ps2"
    /\ ~Live(inflight'[h].out[1].pid)

\* Handler h answers a stop whose signal found no process.
FailedStopEnds(h) ==
    /\ StopFinish(h)
    /\ inflight[h].out[1].gen \in inflight[h].dead

C29_KillOnlySignalled ==
    [][\A t \in timers :
          (TimerFire(t) /\ procs'[t.pid] # procs[t.pid])
              => (procs[t.pid].gen = t.gen /\ procs[t.pid].term)]_vars

\* C30: a transcoder that the controller has sent the termination signal
\* exits or is killed in the end, also when the controller restarts within
\* the grace period and the process ignores the signal.
C30_SignalledEventuallyGone ==
    \A g \in 1..MaxGen :
        (\E p \in Pids : procs[p].gen = g /\ procs[p].term)
            ~> (\A p \in Pids : procs[p].gen # g)

(* ------------------------- one task per schedule id ------------------- *)
\* No two persisted definitions and no two armed tasks share an id.
OnePerId ==
    /\ \A i, k \in 1..Len(cronFile) :
           cronFile[i].id = cronFile[k].id => i = k
    /\ \A j, k \in activeCronJobs : j.id = k.id => j = k

\* A request body with every required field, a valid name and a valid
\* expression.
WellFormed(id, dm) ==
    [id |-> id, cron |-> "ok", name |-> <<"a">>, dur |-> dm]

\* POST /api/cron saves the definition d.
Saves(d) ==
    /\ last'.res = "Saved"
    /\ last'.out = <<JobOf(d)>>
    /\ CronAdd(d, TRUE)

PositiveNumber(dm) ==
    /\ dm # <<>>
    /\ \A i \in 1..Len(dm) : dm[i] \in Digits
    /\ \E i \in 1..Len(dm) : dm[i] # "0"

\* The body lacks a required field, or its name is not alphanumeric, or
\* its expression is invalid, or it carries a duration that is not a
\* positive number.
IllFormed(d, u) ==
    \/ d.id = "" \/ d.cron = "" \/ ~u \/ d.name = NoName
    \/ d.name \notin ValidNames
    \/ d.cron # "ok"
    \/ (d.dur # NoDur /\ ~PositiveNumber(d.dur))

\* C33: an add or update with an ill-formed body is answered with an error
\* and leaves the persisted schedule and the armed tasks as they were.
C33_IllFormedRejected ==
    [][\A d \in Defs, u \in BOOLEAN :
          (IllFormed(d, u) /\ CronAdd(d, u)) =>
              /\ last'.res \in {"Required", "InvalidName", "InvalidDuration",
                                "InvalidCron"}
              /\ cronFile' = cronFile
              /\ activeCronJobs' = activeCronJobs]_vars

(* ----------------------- armed and persisted ids ---------------------- *)
ArmedIds(armed) == {j.id : j \in armed}

PersistedIds(jobs) == {jobs[i].id : i \in 1..Len(jobs)}

\* A start of the controller, or an add, update or remove that was
\* answered with success.
ScheduleSettles ==
    \/ Restart
    \/ \E id \in JobIds : CronRemove(id)
    \/ \E id \in JobIds, dm \in DurInputs : Saves(WellFormed(id, dm))

\* C32: after a start of the controller and after every completed add,
\* update or remove, the ids with an armed task are the ids in the
\* persisted schedule file.
C32_ArmedArePersisted ==
    [][ScheduleSettles =>
          ArmedIds(activeCronJobs') = PersistedIds(cronFile')]_vars

(* ------------------------ names of the captures ----------------------- *)
\* C34: every record of the Registry, and every capture the controller
\* has started, carries a name of letters and digits only, whether it was
\* started through the API, by a firing, by a manual trigger or by a
\* definition reloaded at startup.
C34_NamesAlphanumeric ==
    /\ \A i \in 1..Len(Registry) : validateName(Registry[i].name)
    /\ last.res = "Started" => validateName(last.name)

(* ------------------------------- status ------------------------------- *)
\* Every record of the Registry has a live process with its handle and
\* its name, and every running transcoder has a record.
Consistent ==
    /\ \A i \in 1..Len(Registry) :
           /\ Registry[i].pid \in Pids
           /\ Live(Registry[i].pid)
           /\ procs[Registry[i].pid].gen = Registry[i].gen
    /\ \A x \in getRunningFfmpegProcesses :
           \E i \in 1..Len(Registry) : Registry[i].pid = x.pid

\* A step of a status request: its arrival, or its pass and answer.
StatusStep ==
    \/ \E n \in Names : StatusRequest(n)
    \/ \E h \in Slots : StatusContinue(h)

\* C35: a status request never starts a process and never adds a record,
\* and in a consistent state it leaves the Registry file, the aliases, the
\* processes, the pending signals and the schedule as they are.
C35_StatusReadsOnly ==
    [][StatusStep =>
          /\ nextGen' = nextGen
          /\ AllLiveGens' = AllLiveGens
          /\ \A j \in 1..Len(Registry') : InSeq(Registry'[j], Registry)
          /\ Consistent =>
                 /\ stateFile' = stateFile
                 /\ links' = links
                 /\ procs' = procs
                 /\ timers' = timers
                 /\ cronFile' = cronFile
                 /\ activeCronJobs' = activeCronJobs]_vars

(* ---------------------- firing and the API start --------------------- *)
\* POST /api/record/start of this name, with a stream URL, goes on to
\* spawn when it sees the process list snap: the name passes validateName
\* and no active recording carries it.
StartAccepts(name, snap) ==
    /\ name # NoName
    /\ validateName(name)
    /\ ~HasName(getActiveRecordings(snap, stateFile), name)

\* C36: a firing and a manual trigger start a capture exactly when the API
\* start of the same name would from the same state, and then update the
\* alias and append the record as the API start does.
C36_FiringIsStart ==
    [][\A h \in Slots :
          CronContinue(h) =>
              /\ (last'.res = "Started")
                     <=> StartAccepts(inflight[h].name, inflight[h].snap)
              /\ (last'.res # "Started") =>
                     /\ links' = links
                     /\ nextGen' = nextGen
                     /\ stateFile' =
                            syncStateWithPs(inflight[h].snap, stateFile)
              /\ (last'.res = "Started") =>
                     /\ links' = createSymlink(
                                    generateFilename(inflight[h].name, now),
                                    inflight[h].name)
                     /\ stateFile' =
                            saveStateFile(
                                syncStateWithPs(inflight[h].snap, stateFile),
                                Append(Cleaned(inflight[h].snap, stateFile),
                                       last'.out[1]))]_vars

(* ---------------- the in-memory variant (src/server.js) --------------- *)
\* The controller keeps the recordings in the activeRecordings Map alone:
\* no Registry file, no `ps`, no schedule.  Every handler runs to its end
\* without an await.  In this variant term is the killed flag of the child
\* process object: a signal was sent to it with success.
Entry(name, p, gen) ==
    [gen |-> gen, pid |-> p, outputPath |-> generateFilename(name, now)]

Has(name) == activeRecordings[name] # NoEntry

\* The process the entry of name holds is running.
EntryLive(e) == Live(e.pid) /\ procs[e.pid].gen = e.gen

\* POST /api/record/start.  A failed spawn sets the entry and answers
\* success; its 'error' event is emitted on the next tick, before any
\* other handler, and deletes the entry.
MemStart(name, hasUrl) ==
    /\ Count
    /\ IF ~hasUrl \/ name = NoName
       THEN /\ last' = Resp("start", name, "Required", <<>>, 0, {})
            /\ UNCHANGED <<procs, nextGen, activeRecordings>>
       ELSE IF ~validateName(name)
       THEN /\ last' = Resp("start", name, "InvalidName", <<>>, 0, {})
            /\ UNCHANGED <<procs, nextGen, activeRecordings>>
       ELSE IF Has(name)
       THEN /\ last' = Resp("start", name, "Duplicate", <<>>, 0, {})
            /\ UNCHANGED <<procs, nextGen, activeRecordings>>
       ELSE \/ \E p \in FreePids :
                  /\ nextGen <= MaxGen
                  /\ procs' = [procs EXCEPT ![p] = NewProc(name, TRUE, TRUE)]
                  /\ nextGen' = nextGen + 1
                  /\ activeRecordings' = [activeRecordings EXCEPT
                                             ![name] = Entry(name, p, nextGen)]
                  /\ last' = Resp("start", name, "Started",
                                  <<Record(name, generateFilename(name, now),
                                           p, nextGen, 0)>>, nextGen, {})
            \/ /\ last' = Resp("start", name, "Started",
                               <<Record(name, generateFilename(name, now),
                                        NoPid, 0, 0)>>, 0, {})
               /\ UNCHANGED <<procs, nextGen, activeRecordings>>
    /\ UNCHANGED <<stateFile, links, now, inflight, timers, cronFile,
                   activeCronJobs, variant>>

\* POST /api/record/stop: recording.process.kill('SIGTERM'), the timer of
\* 2 seconds that holds the child process object, and the delete.
MemStop(name) ==
    /\ Count
    /\ IF name = NoName
       THEN /\ last' = Resp("stop", name, "Required", <<>>, 0, {})
            /\ UNCHANGED <<procs, timers, activeRecordings>>
       ELSE IF ~Has(name)
       THEN /\ last' = Resp("stop", name, "NotFound", <<>>, 0, {})
            /\ UNCHANGED <<procs, timers, activeRecordings>>
       ELSE LET e == activeRecordings[name]
            IN /\ procs' = IF EntryLive(e)
                           THEN [procs EXCEPT ![e.pid].term = TRUE]
                           ELSE procs
               /\ timers' = timers \cup {[pid |-> e.pid, gen |-> e.gen]}
               /\ activeRecordings' = [activeRecordings EXCEPT
                                          ![name] = NoEntry]
               /\ last' = Resp("stop", name, "Stopped",
                               <<Record(name, e.outputPath, e.pid, e.gen, 0)>>,
                               0, {})
    /\ UNCHANGED <<stateFile, links, now, inflight, nextGen, cronFile,
                   activeCronJobs, variant>>

\* GET /api/record/status
MemStatus(name) ==
    /\ Count
    /\ last' = IF name = NoName
               THEN Resp("status", name, "list", <<>>, 0, {})
               ELSE IF ~Has(name)
               THEN Resp("status", name, "inactive", <<>>, 0, {})
               ELSE Resp("status", name, "active",
                         <<Record(name, activeRecordings[name].outputPath,
                                  activeRecordings[name].pid,
                                  activeRecordings[name].gen, 0)>>, 0, {})
    /\ UNCHANGED <<procs, stateFile, links, now, inflight, timers, nextGen,
                   cronFile, activeCronJobs, variant, activeRecordings>>

\* A transcoder ends, on its own or on a signal; its 'exit' event is
\* queued for the controller with the name its listener closed over.
MemExit(p) ==
    /\ Live(p)
    /\ HasFree
    /\ procs' = [procs EXCEPT ![p] = NoProc]
    /\ inflight' = [inflight EXCEPT ![FreeSlot] =
            [Idle EXCEPT !.op = "exit", !.pc = "event",
                         !.name = ExtractName(procs[p].args),
                         !.seen = {procs[p].gen}]]
    /\ UNCHANGED <<stateFile, links, now, timers, last, nextGen, cronFile,
                   activeCronJobs, variant, nreq, activeRecordings>>

\* The 'exit' listener: activeRecordings.delete(name).
MemExitEvent(h) ==
    /\ inflight[h].op = "exit"
    /\ inflight[h].pc = "event"
    /\ activeRecordings' = [activeRecordings EXCEPT
                               ![inflight[h].name] = NoEntry]
    /\ inflight' = [inflight EXCEPT ![h] = Idle]
    /\ UNCHANGED <<procs, stateFile, links, now, timers, last, nextGen,
                   cronFile, activeCronJobs, variant, nreq>>

\* The timer of stop: if (!recording.process.killed)
\* recording.process.kill('SIGKILL').  On a child that has exited the
\* kill does nothing.
MemTimer(t) ==
    /\ t \in timers
    /\ timers' = timers \ {t}
    /\ IF EntryLive(t) /\ ~procs[t.pid].term
       THEN /\ HasFree
            /\ procs' = [procs EXCEPT ![t.pid] = NoProc]
            /\ inflight' = [inflight EXCEPT ![FreeSlot] =
                    [Idle EXCEPT !.op = "exit", !.pc = "event",
                                 !.name = ExtractName(procs[t.pid].args),
                                 !.seen = {t.gen}]]
       ELSE UNCHANGED <<procs, inflight>>
    /\ UNCHANGED <<stateFile, links, now, last, nextGen, cronFile,
                   activeCronJobs, variant, nreq, activeRecordings>>

MemReq == 4

InitMem ==
    /\ procs = [p \in Pids |-> NoProc]
    /\ stateFile = Absent
    /\ links = [n \in Names |-> NoLink]
    /\ now = 0
    /\ inflight = [h \in Slots |-> Idle]
    /\ timers = {}
    /\ last = NoResp
    /\ nextGen = 1
    /\ cronFile = <<>>
    /\ activeCronJobs = {}
    /\ variant = "mem"
    /\ activeRecordings = [n \in Names |-> NoEntry]
    /\ nreq = MemReq

NextMem ==
    \/ Tick
    \/ \E n \in Names, u \in BOOLEAN : MemStart(n, u)
    \/ \E n \in Names : MemStop(n)
    \/ \E n \in Names : MemStatus(n)
    \/ \E p \in Pids : MemExit(p)
    \/ \E h \in Slots : MemExitEvent(h)
    \/ \E t \in timers : MemTimer(t)

SpecMem == InitMem /\ [][NextMem]_vars

\* The 'exit' event handled at h is that of the process the entry of name
\* holds.
OwnExit(h, name) ==
    /\ MemExitEvent(h)
    /\ inflight[h].name = name
    /\ activeRecordings[name].gen \in inflight[h].seen

\* C37: the entry of a name leaves the Map only by the stop of that name
\* or by the exit event of the process stored in the entry; the exit
\* event of an earlier process of the name leaves the entry of a new
\* recording in place.
C37_EntryRemovedByOwner ==
    [][\A n \in Names :
          (Has(n) /\ activeRecordings'[n] # activeRecordings[n]) =>
              \/ MemStop(n)
              \/ \E h \in Slots : OwnExit(h, n)]_vars

\* C38: stop signals the running process of the recording, and when the
\* timer of that stop fires while the process is still running, the
\* process is killed.
C38_KillAfterGrace ==
    [][/\ \A n \in Names :
             (MemStop(n) /\ Has(n) /\ EntryLive(activeRecordings[n])) =>
                 procs'[activeRecordings[n].pid].term
       /\ \A t \in timers :
             (MemTimer(t) /\ EntryLive(t)) =>
                 procs'[t.pid].gen # t.gen]_vars

====
